---- MODULE Spec2Model ----
(***************************************************************************)
(* A model of src/solution.py: the option extractor (parse_options), the   *)
(* equation normalizer (normalize_equation), the decision cascade          *)
(* (baseline_heuristic), the record processor (process_item, load_image)   *)
(* and the batch driver (main).                                            *)
(*                                                                         *)
(* A Python str is a sequence of characters; a character is a one-element  *)
(* TLA+ string, and a character outside ASCII is written as a token:       *)
(*   SUB1 U+2081, SUB2 U+2082, FWEQ U+FF1D, NEQ U+2260, LE U+2264,         *)
(*   GE U+2265, LES U+2A7D, GES U+2A7E, NBSP U+00A0,                       *)
(*   CYR_A/CYR_BE/CYR_YA U+0410/U+0411/U+042F and their lower case         *)
(*   cyr_a/cyr_be/cyr_ya, CYR_IO U+0401 (upper case, outside U+0410-042F). *)
(***************************************************************************)
EXTENDS Integers, Sequences, FiniteSets, TLC

VARIABLES
    s, ns, nns, npc,                          \* normalize_equation applied (twice) to s
    text, opts, presult, xpc,                 \* parse_options / process_item applied to text
    question_text, options, answer, rule, dpc,\* baseline_heuristic applied
    item1, item2, res1, res2, ppc,            \* process_item on two records differing in image
    data, idx, results, pc, writable,         \* main
    pil                                       \* PIL_AVAILABLE (lines 10-14)

vars == <<s, ns, nns, npc, text, opts, presult, xpc,
          question_text, options, answer, rule, dpc,
          item1, item2, res1, res2, ppc,
          data, idx, results, pc, writable, pil>>

normVars   == <<s, ns, nns, npc>>
parseVars  == <<text, opts, presult, xpc>>
decideVars == <<question_text, options, answer, rule, dpc>>
procVars   == <<item1, item2, res1, res2, ppc>>
mainVars   == <<data, idx, results, pc, writable>>

(***************************************************************************)
(* Characters                                                              *)
(***************************************************************************)
NL == "\n"
CR == "\r"
TAB == "\t"

LatinUpper == <<"A","B","C","D","E","F","G","H","I","J","K","L","M",
                "N","O","P","Q","R","S","T","U","V","W","X","Y","Z">>
LatinLower == <<"a","b","c","d","e","f","g","h","i","j","k","l","m",
                "n","o","p","q","r","s","t","u","v","w","x","y","z">>
CyrUpper == <<"CYR_A", "CYR_BE", "CYR_YA">>
CyrLower == <<"cyr_a", "cyr_be", "cyr_ya">>

Range(f) == {f[i] : i \in DOMAIN f}

\* str.lower() on one character
LowerChar(c) ==
    IF \E i \in DOMAIN LatinUpper : LatinUpper[i] = c
    THEN LatinLower[CHOOSE i \in DOMAIN LatinUpper : LatinUpper[i] = c]
    ELSE IF \E i \in DOMAIN CyrUpper : CyrUpper[i] = c
    THEN CyrLower[CHOOSE i \in DOMAIN CyrUpper : CyrUpper[i] = c]
    ELSE IF c = "CYR_IO" THEN "cyr_io"
    ELSE c

\* str.lower()
Lower(str) == [i \in DOMAIN str |-> LowerChar(str[i])]

\* what \s matches in a str pattern, and what str.strip() strips
IsSpace(c) == c \in {" ", NL, CR, TAB, "NBSP"}

\* code point order of the characters a character class [A-ZА-Я] can capture
Ord(c) ==
    IF \E i \in DOMAIN LatinUpper : LatinUpper[i] = c
    THEN 64 + (CHOOSE i \in DOMAIN LatinUpper : LatinUpper[i] = c)
    ELSE IF c = "CYR_A" THEN 1040
    ELSE IF c = "CYR_BE" THEN 1041
    ELSE IF c = "CYR_YA" THEN 1071
    ELSE 0

(***************************************************************************)
(* String helpers                                                          *)
(***************************************************************************)
RECURSIVE ReplaceFrom(_, _, _, _)
ReplaceFrom(str, i, c, r) ==
    IF i > Len(str) THEN <<>>
    ELSE (IF str[i] = c THEN r ELSE <<str[i]>>) \o ReplaceFrom(str, i + 1, c, r)

\* str.replace(c, r) for a one-character pattern c
Replace(str, c, r) ==
    IF \A i \in DOMAIN str : str[i] # c THEN str ELSE ReplaceFrom(str, 1, c, r)

RECURSIVE ReplaceCRLF(_)
\* str.replace("\r\n", "\n")
ReplaceCRLF(str) ==
    IF str = <<>> THEN <<>>
    ELSE IF Len(str) >= 2 /\ str[1] = CR /\ str[2] = NL
         THEN <<NL>> \o ReplaceCRLF(SubSeq(str, 3, Len(str)))
         ELSE <<Head(str)>> \o ReplaceCRLF(Tail(str))

\* re.sub(r'\s+', '', str)
RemoveSpace(str) == SelectSeq(str, LAMBDA c : ~IsSpace(c))

\* sub in str
Contains(str, sub) ==
    \E i \in 1..(Len(str) - Len(sub) + 1) : SubSeq(str, i, i + Len(sub) - 1) = sub

\* str.strip()
Strip(str) ==
    LET keep == {i \in DOMAIN str : ~IsSpace(str[i])}
    IN IF keep = {} THEN <<>>
       ELSE SubSeq(str, CHOOSE i \in keep : \A j \in keep : i <= j,
                        CHOOSE i \in keep : \A j \in keep : i >= j)

(***************************************************************************)
(* normalize_equation                                                      *)
(***************************************************************************)
\* normalize_equation without lines 110-111 (only one Unicode variant of <=, >=)
normalize_equation_one_variant(str) ==
    LET s1 == Lower(str)
        s2 == Replace(Replace(s1, "SUB1", <<"1">>), "SUB2", <<"2">>)
        s3 == RemoveSpace(s2)
        s4 == Replace(Replace(s3, "FWEQ", <<"=">>), "NEQ", <<"!", "=">>)
        s5 == Replace(Replace(s4, "LE", <<"<", "=">>), "GE", <<">", "=">>)
    IN s5

normalize_equation(str) ==
    LET s1 == Lower(str)
        s2 == Replace(Replace(s1, "SUB1", <<"1">>), "SUB2", <<"2">>)
        s3 == RemoveSpace(s2)
        s4 == Replace(Replace(s3, "FWEQ", <<"=">>), "NEQ", <<"!", "=">>)
        s5 == Replace(Replace(s4, "LE", <<"<", "=">>), "GE", <<">", "=">>)
        s6 == Replace(Replace(s5, "LES", <<"<", "=">>), "GES", <<">", "=">>)
        s7 == Replace(Replace(s6, "GES", <<">", "=">>), "LES", <<"<", "=">>)
    IN s7

(***************************************************************************)
(* parse_options                                                           *)
(***************************************************************************)
\* a character class [A-Z] that leaves the Cyrillic range out
PatternLetterLatinOnly(c) == c \in Range(LatinUpper)

\* the character class [A-Z\u0410-\u042F] of the pattern of line 79
PatternLetter(c) == c \in Range(LatinUpper) \cup Range(CyrUpper)

\* the character class [A-Z\u0410-\u042F] of the pattern of line 92
FallbackLetter(c) == c \in Range(LatinUpper) \cup Range(CyrUpper)

Min(S) == CHOOSE i \in S : \A j \in S : i <= j

\* positions i >= p where ([A-Z...])\. matches
MarkersFrom(str, p) ==
    {i \in p..(Len(str) - 1) : PatternLetter(str[i]) /\ str[i + 1] = "."}

\* where the greedy \s* starting at j ends (first position not consumed)
SkipSpace(str, j) ==
    Min({k \in j..(Len(str) + 1) : k = Len(str) + 1 \/ ~IsSpace(str[k])})

\* the lookahead (?!\n[A-Z...]\.) fails at k
LookaheadFails(str, k) ==
    /\ k + 2 <= Len(str)
    /\ str[k] = NL
    /\ PatternLetter(str[k + 1])
    /\ str[k + 2] = "."

\* where ((?:(?!\n[A-Z...]\.).)*) starting at j ends (first position not consumed)
CaptureEnd(str, j) ==
    Min({k \in j..(Len(str) + 1) : k = Len(str) + 1 \/ LookaheadFails(str, k)})

RECURSIVE FindAll(_, _)
\* pattern.findall(str), scanning from position p; one <<letter, text>> per match
FindAll(str, p) ==
    IF MarkersFrom(str, p) = {} THEN <<>>
    ELSE LET i == Min(MarkersFrom(str, p))
             j == SkipSpace(str, i + 2)
             k == CaptureEnd(str, j)
         IN <<(<<str[i], SubSeq(str, j, k - 1)>>)>> \o FindAll(str, k)

RECURSIVE Split(_, _)
\* str.split(sep) for a one-character sep
Split(str, sep) ==
    IF \A i \in DOMAIN str : str[i] # sep THEN <<str>>
    ELSE LET i == Min({k \in DOMAIN str : str[k] = sep})
         IN <<SubSeq(str, 1, i - 1)>> \o Split(SubSeq(str, i + 1, Len(str)), sep)

\* re.match(r'^\s*([A-Z...])\.\s*(.+)$', line.strip()) matches; line has no newline
LineMatches(line) ==
    LET t == Strip(line)
    IN /\ Len(t) >= 3
       /\ FallbackLetter(t[1])
       /\ t[2] = "."
       /\ SkipSpace(t, 3) <= Len(t)

\* (m.group(1), m.group(2).strip()) of that match
LineOption(line) ==
    LET t == Strip(line)
    IN <<t[1], Strip(SubSeq(t, SkipSpace(t, 3), Len(t)))>>

\* lines 74: line endings
NormalizeLineEndings(str) == Replace(ReplaceCRLF(str), CR, <<NL>>)

\* lines 79-80: the primary strategy's matches
PrimaryMatches(str) == FindAll(NormalizeLineEndings(str), 1)

\* lines 90-95: the per-line fallback
FallbackOptions(str) ==
    LET lines == SelectSeq(Split(NormalizeLineEndings(str), NL), LineMatches)
    IN [n \in DOMAIN lines |-> LineOption(lines[n])]

parse_options(str) ==
    LET matches == PrimaryMatches(str)
    IN IF matches # <<>>
       THEN [n \in DOMAIN matches |-> <<matches[n][1], Strip(matches[n][2])>>]
       ELSE FallbackOptions(str)

(***************************************************************************)
(* baseline_heuristic                                                      *)
(***************************************************************************)
H1 == <<"h", "1">>
H2 == <<"h", "2">>
LEVEL == <<"l", "e", "v", "e", "l">>
H1_EQ_H2 == <<"h", "1", "=", "h", "2">>
H1_GT_H2 == <<"h", "1", ">", "h", "2">>
H2_GT_H1 == <<"h", "2", ">", "h", "1">>
CANNOT_BE_DETERMINED ==
    <<"c","a","n","n","o","t"," ","b","e"," ",
      "d","e","t","e","r","m","i","n","e","d">>

\* a classification that asks for both tags
looks_like_liquid_all(q) ==
    /\ \A tag \in {H1, H2} : Contains(normalize_equation(q), tag)
    /\ Contains(Lower(q), LEVEL)

\* lines 123-124
looks_like_liquid(q) ==
    /\ \E tag \in {H1, H2} : Contains(normalize_equation(q), tag)
    /\ Contains(Lower(q), LEVEL)

\* line 127
norm_opts(os) == [n \in DOMAIN os |-> <<os[n][1], normalize_equation(os[n][2])>>]

\* lines 128-129, of the normalized options
has_h1_gt_h2(no) == \E n \in DOMAIN no : Contains(no[n][2], H1_GT_H2)
has_h2_gt_h1(no) == \E n \in DOMAIN no : Contains(no[n][2], H2_GT_H1)

\* line 130, of the normalized options: the letters of the options of has_h1_eq_h2
has_h1_eq_h2(no) ==
    {no[n][1] : n \in {m \in DOMAIN no : Contains(no[m][2], H1_EQ_H2)}}

\* the phrase looked for in the normalized (space-free) text
has_cannot_determine_normalized(os) ==
    {os[n][1] : n \in {m \in DOMAIN os :
                          Contains(normalize_equation(os[m][2]), CANNOT_BE_DETERMINED)}}

\* line 137: the letters of has_cannot_determine
has_cannot_determine(os) ==
    {os[n][1] : n \in {m \in DOMAIN os : Contains(Lower(os[m][2]), CANNOT_BE_DETERMINED)}}

RECURSIVE SortedJoin(_)
\* "".join(sorted(set_of_letters))
SortedJoin(S) ==
    IF S = {} THEN <<>>
    ELSE LET c == CHOOSE x \in S : \A y \in S : Ord(x) <= Ord(y)
         IN <<c>> \o SortedJoin(S \ {c})

RECURSIVE UnsortedJoin(_, _)
\* the letters of S in the order of the option sequence, each once
UnsortedJoin(os, S) ==
    IF os = <<>> THEN <<>>
    ELSE IF os[1][1] \in S
         THEN <<os[1][1]>> \o UnsortedJoin(Tail(os), S \ {os[1][1]})
         ELSE UnsortedJoin(Tail(os), S)

RECURSIVE SortedSeq(_)
\* sorted(list_of_letters)
SortedSeq(seq) ==
    IF seq = <<>> THEN <<>>
    ELSE LET m == CHOOSE i \in DOMAIN seq : \A j \in DOMAIN seq : Ord(seq[i]) <= Ord(seq[j])
         IN <<seq[m]>> \o SortedSeq(SubSeq(seq, 1, m - 1) \o SubSeq(seq, m + 1, Len(seq)))

\* "".join(sorted(...)) of the letters as a list, not a set
EqualityAnswerNoDedup(os) ==
    LET eq == SelectSeq(norm_opts(os), LAMBDA o : Contains(o[2], H1_EQ_H2))
    IN SortedSeq([n \in DOMAIN eq |-> eq[n][1]])

\* "".join(...) of the letters in extraction order
EqualityAnswerUnsorted(os) == UnsortedJoin(os, has_h1_eq_h2(norm_opts(os)))

\* line 134
EqualityAnswer(os) == SortedJoin(has_h1_eq_h2(norm_opts(os)))

\* line 139
IndeterminacyAnswer(os) == SortedJoin(has_cannot_determine(os))

\* a default that returns the last option's letter
DefaultAnswerLast(os) == IF os # <<>> THEN <<os[Len(os)][1]>> ELSE <<>>

\* lines 142-146
DefaultAnswer(os) == IF os # <<>> THEN <<os[1][1]>> ELSE <<>>

\* the return statement taken: 1 (line 134), 2 (line 139), 3 (line 143), 4 (line 146)
ReturnTaken(q, os) ==
    LET no == norm_opts(os)
    IN IF looks_like_liquid(q) /\ has_h1_eq_h2(no) # {} THEN 1
       ELSE IF /\ has_cannot_determine(os) # {}
               /\ has_h1_gt_h2(no)
               /\ has_h2_gt_h1(no)
               /\ has_h1_eq_h2(no) = {} THEN 2
       ELSE IF os # <<>> THEN 3
       ELSE 4

baseline_heuristic(q, os) ==
    LET r == ReturnTaken(q, os)
    IN CASE r = 1 -> EqualityAnswer(os)
         [] r = 2 -> IndeterminacyAnswer(os)
         [] OTHER -> DefaultAnswer(os)

(***************************************************************************)
(* Records: a dict is a tagged record; an absent key holds Missing, the    *)
(* value None holds None.  rid values are opaque strings.                  *)
(***************************************************************************)
Missing == "Missing"
None == "None"
MissingV == [t |-> "missing"]
NoneV == [t |-> "None"]
Str(v) == [t |-> "str", v |-> v]
NotAMapping == [t |-> "notmapping"]
Dict(rid, question, image) ==
    [t |-> "dict", rid |-> rid, question |-> question, image |-> image]

\* lines 46-56 on an array of the given shape: "Image", "None" or "raise"
FromArray(shape) ==
    LET ndim == Len(shape)
        arr == IF ndim = 3 /\ shape[1] \in {1, 3, 4}
               THEN <<shape[2], shape[3], shape[1]>> ELSE shape
    IN IF Len(arr) = 2 THEN "Image"
       ELSE IF Len(arr) < 3 THEN "raise"
       ELSE IF arr[3] \in {3, 4} THEN "Image"
       ELSE "None"

\* lines 29-61: the body of the outer try: "Image", "None" or "raise"
LoadImageBody(blob) ==
    IF blob.t = "bytes" THEN (IF blob.ok THEN "Image" ELSE "raise")
    ELSE IF blob.t = "str" THEN (IF blob.ok THEN "Image" ELSE "raise")
    ELSE IF blob.t = "ndarray"
         THEN (IF FromArray(blob.shape) = "raise" THEN "None" ELSE FromArray(blob.shape))
    ELSE "None"

\* load_image without the outer try/except
load_image_unguarded(blob, pil_available) ==
    IF ~pil_available THEN "None" ELSE LoadImageBody(blob)

\* lines 20-65: "Image" or "None"; "raise" would be an exception leaving it
load_image(blob, pil_available) ==
    IF ~pil_available THEN "None"
    ELSE IF LoadImageBody(blob) = "raise" THEN "None"
    ELSE LoadImageBody(blob)

Raised == [raised |-> TRUE, rid |-> None, answer |-> <<>>]
Returned(rid, ans) == [raised |-> FALSE, rid |-> rid, answer |-> ans]

\* dict.get(key, default) for the three keys
GetRid(item) == IF item.rid = Missing THEN None ELSE item.rid
GetQuestion(item) == IF item.question.t = "missing" THEN Str(<<>>) ELSE item.question
GetImage(item) == IF item.image.t = "missing" THEN NoneV ELSE item.image

\* lines 149-159
process_item(item, pil_available) ==
    IF item.t # "dict" THEN Raised
    ELSE IF load_image(GetImage(item), pil_available) = "raise" THEN Raised
    ELSE IF GetQuestion(item).t # "str" THEN Raised
    ELSE Returned(GetRid(item),
                  baseline_heuristic(GetQuestion(item).v,
                                     parse_options(GetQuestion(item).v)))

\* a handler that emits nothing for a failed record
HandleFailureDrop(res, item) == res

\* lines 189-192
HandleFailure(res, item) ==
    IF GetRid(item) # None
    THEN Append(res, [rid |-> GetRid(item), answer |-> <<>>])
    ELSE res

(***************************************************************************)
(* Bounds and input sets                                                   *)
(***************************************************************************)
MaxNormLen == 3
MaxTextLen == 5
MaxOpts == 3
MaxRecords == 3

Strings(alphabet, n) == UNION {[1..k -> alphabet] : k \in 0..n}

NormAlphabet ==
    {"H", "h", "1", "SUB1", "SUB2", " ", "NBSP", "=", "FWEQ", "NEQ", "LE", "GE", "LES", "GES"}
NormSamples ==
    { <<"H", "SUB1", " ", "GE", " ", "H", "SUB2">>,
      <<"h", "1", ">", "=", "h", "2">>,
      <<"H", "SUB1", TAB, "GES", NL, "h", "2">> }
NormInputs == Strings(NormAlphabet, MaxNormLen) \cup NormSamples

TextAlphabet == {"A", "CYR_BE", ".", NL, " ", "x"}
TextSamples ==
    { <<"A",".", " ","f","o","o",NL,"B","."," ","b","a","r",NL,"C","."," ","b","a","z">>,
      <<"A",".",NL,"B","."," ","b","a","r",NL,"C","."," ","b","a","z">>,
      <<"A","."," ","f","o","o",CR,NL,"B","."," ","b","a","r",CR,"C","."," ","b","a","z">>,
      <<"a","."," ","x",NL,"CYR_IO","."," ","y">>,
      <<"Q","?",NL,"A","."," ","x"," ","B","."," ","y">> }
TextInputs == Strings(TextAlphabet, MaxTextLen) \cup TextSamples

Questions ==
    { <<"l","e","v","e","l","s"," ","h","1"," ","h","2">>,
      <<"L","e","v","e","l"," ","H","SUB1">>,
      <<"h","1"," ","h","2">>,
      <<"l","e","v","e","l">> }
OptLetters == {"A", "C"}
OptTexts ==
    { <<"H","SUB1"," ","FWEQ"," ","H","SUB2">>,
      <<"h","1",">","h","2">>,
      <<"h","2"," ",">"," ","h","1">>,
      <<"C","a","n","n","o","t"," ","b","e"," ","d","e","t","e","r","m","i","n","e","d">> }
OptionSeqs == UNION {[1..k -> OptLetters \X OptTexts] : k \in 0..MaxOpts}

Rids == {Missing, None, "r1", "r2"}
ImageBlobs ==
    { MissingV, NoneV, [t |-> "other"],
      [t |-> "bytes", ok |-> TRUE], [t |-> "bytes", ok |-> FALSE],
      [t |-> "str", ok |-> TRUE], [t |-> "str", ok |-> FALSE] }
    \cup {[t |-> "ndarray", shape |-> sh] :
             sh \in {<<2>>, <<2, 2>>, <<2, 2, 3>>, <<4, 2, 2>>, <<2, 2, 2>>}}
QuestionValues ==
    { MissingV, NoneV,
      Str(<<"n","o"," ","o","p","t","i","o","n","s">>),
      Str(<<"Q","?",NL,"A","."," ","x",NL,"B","."," ","y">>),
      Str(<<"l","e","v","e","l"," ","h","1",NL,"A",".","h","1",">","h","2",NL,
            "C",".","h","1","=","h","2">>) }

\* the items main is run on
MainItems ==
    {NotAMapping} \cup
    {Dict(r, q, [t |-> "bytes", ok |-> FALSE]) :
        r \in {None, "r1", "r2"},
        q \in {NoneV, Str(<<"x">>), Str(<<"C", ".", "y", NL, "A", ".">>)}}
DataValues ==
    {[t |-> "unreadable", v |-> <<>>], [t |-> "notlist", v |-> <<>>]} \cup
    {[t |-> "list", v |-> v] : v \in UNION {[1..k -> MainItems] : k \in 0..MaxRecords}}

(***************************************************************************)
(* The parts of the state a specification does not use                     *)
(***************************************************************************)
IdleNorm == s = <<>> /\ ns = <<>> /\ nns = <<>> /\ npc = "idle"
IdleParse == text = <<>> /\ opts = <<>> /\ presult = Raised /\ xpc = "idle"
IdleDecide ==
    question_text = <<>> /\ options = <<>> /\ answer = <<>> /\ rule = 0 /\ dpc = "idle"
IdleProc ==
    /\ item1 = NotAMapping /\ item2 = NotAMapping
    /\ res1 = Raised /\ res2 = Raised /\ ppc = "idle"
IdleMain ==
    /\ data = [t |-> "list", v |-> <<>>] /\ idx = 0 /\ results = <<>>
    /\ pc = "idle" /\ writable = TRUE

(***************************************************************************)
(* normalize_equation applied to a string, and again to its result         *)
(***************************************************************************)
InitNormalize ==
    /\ s \in NormInputs /\ ns = <<>> /\ nns = <<>> /\ npc = "start"
    /\ IdleParse /\ IdleDecide /\ IdleProc /\ IdleMain /\ pil = TRUE

Normalize ==
    /\ npc = "start"
    /\ ns' = normalize_equation(s)
    /\ npc' = "once"
    /\ UNCHANGED <<s, nns, parseVars, decideVars, procVars, mainVars, pil>>

NormalizeAgain ==
    /\ npc = "once"
    /\ nns' = normalize_equation(ns)
    /\ npc' = "twice"
    /\ UNCHANGED <<s, ns, parseVars, decideVars, procVars, mainVars, pil>>

NextNormalize == Normalize \/ NormalizeAgain
SpecNormalize == InitNormalize /\ [][NextNormalize]_vars

(***************************************************************************)
(* parse_options applied to a text, and process_item to a record whose     *)
(* question is that text                                                   *)
(***************************************************************************)
InitParse ==
    /\ text \in TextInputs /\ opts = <<>> /\ presult = Raised /\ xpc = "start"
    /\ IdleNorm /\ IdleDecide /\ IdleProc /\ IdleMain /\ pil = TRUE

Extract ==
    /\ xpc = "start"
    /\ opts' = parse_options(text)
    /\ xpc' = "parsed"
    /\ UNCHANGED <<text, presult, normVars, decideVars, procVars, mainVars, pil>>

Process ==
    /\ xpc = "parsed"
    /\ presult' = process_item(Dict("r1", Str(text), MissingV), pil)
    /\ xpc' = "done"
    /\ UNCHANGED <<text, opts, normVars, decideVars, procVars, mainVars, pil>>

NextParse == Extract \/ Process
SpecParse == InitParse /\ [][NextParse]_vars

(***************************************************************************)
(* baseline_heuristic applied to a question and an option sequence         *)
(***************************************************************************)
InitDecide ==
    /\ question_text \in Questions /\ options \in OptionSeqs
    /\ answer = <<>> /\ rule = 0 /\ dpc = "start"
    /\ IdleNorm /\ IdleParse /\ IdleProc /\ IdleMain /\ pil = TRUE

Decide ==
    /\ dpc = "start"
    /\ answer' = baseline_heuristic(question_text, options)
    /\ rule' = ReturnTaken(question_text, options)
    /\ dpc' = "done"
    /\ UNCHANGED <<question_text, options, normVars, parseVars, procVars, mainVars, pil>>

NextDecide == Decide
SpecDecide == InitDecide /\ [][NextDecide]_vars

(***************************************************************************)
(* process_item applied to two records that differ at most in the image    *)
(***************************************************************************)
InitProcess ==
    /\ \E r \in Rids, q \in QuestionValues, i1 \in ImageBlobs, i2 \in ImageBlobs :
          item1 = Dict(r, q, i1) /\ item2 = Dict(r, q, i2)
    /\ pil \in BOOLEAN
    /\ res1 = Raised /\ res2 = Raised /\ ppc = "start"
    /\ IdleNorm /\ IdleParse /\ IdleDecide /\ IdleMain

ProcessFirst ==
    /\ ppc = "start"
    /\ res1' = process_item(item1, pil)
    /\ ppc' = "first"
    /\ UNCHANGED <<item1, item2, res2, normVars, parseVars, decideVars, mainVars, pil>>

ProcessSecond ==
    /\ ppc = "first"
    /\ res2' = process_item(item2, pil)
    /\ ppc' = "both"
    /\ UNCHANGED <<item1, item2, res1, normVars, parseVars, decideVars, mainVars, pil>>

NextProcess == ProcessFirst \/ ProcessSecond
SpecProcess == InitProcess /\ [][NextProcess]_vars

(***************************************************************************)
(* main                                                                    *)
(***************************************************************************)
Init ==
    /\ data \in DataValues /\ idx = 1 /\ results = <<>> /\ pc = "load"
    /\ writable = TRUE /\ pil \in BOOLEAN
    /\ IdleNorm /\ IdleParse /\ IdleDecide /\ IdleProc

\* lines 168-173: the pickle cannot be read
LoadFailed ==
    /\ pc = "load" /\ data.t = "unreadable"
    /\ pc' = "exit1"
    /\ UNCHANGED <<data, idx, results, writable, pil, normVars, parseVars, decideVars, procVars>>

\* lines 175-177
NotAList ==
    /\ pc = "load" /\ data.t = "notlist"
    /\ pc' = "exit1"
    /\ UNCHANGED <<data, idx, results, writable, pil, normVars, parseVars, decideVars, procVars>>

\* lines 168-179
Loaded ==
    /\ pc = "load" /\ data.t = "list"
    /\ pc' = "loop"
    /\ UNCHANGED <<data, idx, results, writable, pil, normVars, parseVars, decideVars, procVars>>

\* lines 180-186: the record is processed and its result appended
RecordDone ==
    /\ pc = "loop" /\ idx <= Len(data.v)
    /\ ~process_item(data.v[idx], pil).raised
    /\ results' = Append(results, [rid |-> process_item(data.v[idx], pil).rid,
                                    answer |-> process_item(data.v[idx], pil).answer])
    /\ idx' = idx + 1
    /\ UNCHANGED <<data, pc, writable, pil, normVars, parseVars, decideVars, procVars>>

\* lines 187-192: process_item raised, the handler runs
RecordFailed ==
    /\ pc = "loop" /\ idx <= Len(data.v)
    /\ process_item(data.v[idx], pil).raised
    /\ data.v[idx].t = "dict"
    /\ results' = HandleFailure(results, data.v[idx])
    /\ idx' = idx + 1
    /\ UNCHANGED <<data, pc, writable, pil, normVars, parseVars, decideVars, procVars>>

\* line 189: item.get raises in the handler, the exception leaves main
HandlerRaised ==
    /\ pc = "loop" /\ idx <= Len(data.v)
    /\ process_item(data.v[idx], pil).raised
    /\ data.v[idx].t # "dict"
    /\ pc' = "crashed"
    /\ UNCHANGED <<data, idx, results, writable, pil, normVars, parseVars, decideVars, procVars>>

\* lines 194-199: the output file is written, or cannot be
WriteOutput ==
    /\ pc = "loop" /\ idx > Len(data.v)
    /\ writable' \in BOOLEAN
    /\ pc' = IF writable' THEN "exit0" ELSE "exit1"
    /\ UNCHANGED <<data, idx, results, pil, normVars, parseVars, decideVars, procVars>>

Next ==
    \/ LoadFailed \/ NotAList \/ Loaded
    \/ RecordDone \/ RecordFailed \/ HandlerRaised
    \/ WriteOutput
Spec == Init /\ [][Next]_vars

(***************************************************************************)
(* Properties of normalize_equation (SpecNormalize)                        *)
(***************************************************************************)
H1_GE_H2 == <<"h", "1", ">", "=", "h", "2">>
NormalizedAway == {" ", NL, CR, TAB, "NBSP", "SUB1", "SUB2", "FWEQ", "NEQ", "LE", "GE", "LES", "GES"}

\* C8: normalize_equation is idempotent (normalizing its result again changes
\* nothing), its result holds no whitespace, no subscript digit and none of the
\* comparison symbols it rewrites, and "H_1 >= H_2" written with the subscripts,
\* spaces and the one-character >= normalizes to the same string as "h1>=h2".
C8_NormalizeIdempotent ==
    /\ npc = "twice" => nns = ns
    /\ npc \in {"once", "twice"} =>
          /\ \A i \in DOMAIN ns : ns[i] \notin NormalizedAway
          /\ s \in NormSamples => ns = H1_GE_H2

C8_Witness ==
    /\ npc = "twice"
    /\ s = <<"H", "SUB1", " ", "GE", " ", "H", "SUB2">>
    /\ ns = H1_GE_H2 /\ nns = H1_GE_H2

(***************************************************************************)
(* Properties of parse_options (SpecParse)                                *)
(***************************************************************************)
UpperLetter(c) == c \in Range(LatinUpper) \cup Range(CyrUpper)
HasLetterDot(str) ==
    \E i \in 1..(Len(str) - 1) : UpperLetter(str[i]) /\ str[i + 1] = "."

\* C10: parse_options returns a non-empty sequence exactly when the text holds an
\* upper-case letter (A-Z, U+0410-U+042F) directly followed by a period; when the
\* primary strategy matches nothing the per-line fallback matches nothing either;
\* and for a text without letter-period process_item answers "".
C10_NonEmptyIffLetterDot ==
    /\ xpc \in {"parsed", "done"} =>
          /\ (opts # <<>>) <=> HasLetterDot(text)
          /\ PrimaryMatches(text) = <<>> => FallbackOptions(text) = <<>>
    /\ (xpc = "done" /\ ~HasLetterDot(text)) =>
          (~presult.raised /\ presult.answer = <<>>)

C10_Witness ==
    /\ xpc = "done"
    /\ text = <<"a", ".", " ", "x", NL, "CYR_IO", ".", " ", "y">>
    /\ opts = <<>>
    /\ ~presult.raised /\ presult.answer = <<>>

\* the positions of "newline, upper-case letter, period" after position i
NewlineMarkersAfter(str, i) ==
    {k \in (i + 1)..(Len(str) - 2) :
        str[k] = NL /\ UpperLetter(str[k + 1]) /\ str[k + 2] = "."}

RECURSIVE OptionsAt(_, _)
\* the option whose letter is at p, and the options of the later newline markers
OptionsAt(str, p) ==
    LET later == NewlineMarkersAfter(str, p)
        stop == IF later = {} THEN Len(str) + 1 ELSE Min(later)
    IN <<(<<str[p], Strip(SubSeq(str, p + 2, stop - 1))>>)>>
       \o (IF later = {} THEN <<>> ELSE OptionsAt(str, stop + 1))

\* the options the claim describes: the first marker starts an option, and so
\* does every "newline, upper-case letter, period" after it
ClaimedOptions(str) ==
    LET nt == NormalizeLineEndings(str)
        first == {i \in 1..(Len(nt) - 1) : UpperLetter(nt[i]) /\ nt[i + 1] = "."}
    IN IF first = {} THEN <<>> ELSE OptionsAt(nt, Min(first))

\* C6: in the primary strategy every "newline, upper-case letter, period" that
\* follows an option marker starts its own option, whose text runs to the next such
\* marker (trimmed), also when an option's text is empty: lines "A.", "B. bar",
\* "C. baz" give (A, ""), (B, "bar"), (C, "baz").
C6_EveryLineMarkerStartsAnOption ==
    xpc \in {"parsed", "done"} => opts = ClaimedOptions(text)

(***************************************************************************)
(* Properties of baseline_heuristic (SpecDecide)                          *)
(***************************************************************************)
QuestionHas(tag) == Contains(normalize_equation(question_text), tag)
QuestionHasLevel == Contains(Lower(question_text), LEVEL)
OptionHas(n, sub) == Contains(normalize_equation(options[n][2]), sub)
EqualityLetters == {options[n][1] : n \in {m \in DOMAIN options : OptionHas(m, H1_EQ_H2)}}
CannotLetters ==
    {options[n][1] : n \in {m \in DOMAIN options :
                               Contains(Lower(options[m][2]), CANNOT_BE_DETERMINED)}}
\* ans holds each letter of S once, in ascending order
IsSortedJoinOf(ans, S) ==
    /\ Range(ans) = S
    /\ \A i, j \in DOMAIN ans : i < j => Ord(ans[i]) < Ord(ans[j])
IndeterminacyHolds ==
    /\ CannotLetters # {}
    /\ \E n \in DOMAIN options : OptionHas(n, H1_GT_H2)
    /\ \E n \in DOMAIN options : OptionHas(n, H2_GT_H1)
    /\ EqualityLetters = {}

C3_EqualityAnswerSortedSet ==
    (dpc = "done" /\ rule = 1) => IsSortedJoinOf(answer, EqualityLetters)

C3_Witness ==
    /\ dpc = "done" /\ rule = 1
    /\ Len(options) = 3
    /\ options[1][1] = "C" /\ options[2][1] = "A" /\ options[3][1] = "C"
    /\ \A n \in DOMAIN options : OptionHas(n, H1_EQ_H2)
    /\ answer = <<"A", "C">>

\* C4, as claimed: when rule 1 does not return, the answer is the sorted,
\* deduplicated letters of the "cannot be determined" options if and only if
\* that set is non-empty, both inequalities occur and no equality occurs
\* (stated here for a non-empty set, where the answer is not the empty join).
C4_CannotAnswerIffIndeterminacy ==
    (dpc = "done" /\ rule # 1 /\ CannotLetters # {}) =>
        (IsSortedJoinOf(answer, CannotLetters) <=> IndeterminacyHolds)

\* C4, amended: when rule 1 does not return, rule 2 returns if and only if the
\* "cannot be determined" set is non-empty, both inequalities occur and no
\* equality occurs, and its answer is that set's letters, sorted, each once
\* (the default rule may return the same string); rule 2 never returns when an
\* equality option exists, and rule 1 returns whenever its conditions hold.
C4_RuleTwoIffIndeterminacy ==
    dpc = "done" =>
        /\ rule # 1 => (rule = 2 <=> IndeterminacyHolds)
        /\ rule = 2 => IsSortedJoinOf(answer, CannotLetters)
        /\ EqualityLetters # {} => rule # 2
        /\ (rule = 1 /\ CannotLetters # {}) => IsSortedJoinOf(answer, EqualityLetters)

C4_Witness ==
    /\ dpc = "done" /\ rule = 2
    /\ Len(options) = 3
    /\ options[1][1] = "C" /\ options[2][1] = "C" /\ options[3][1] = "A"
    /\ CannotLetters = {"A"}
    /\ answer = <<"A">>

C9_AnswerWellFormed ==
    dpc = "done" =>
        /\ \A i \in DOMAIN answer : \E n \in DOMAIN options : options[n][1] = answer[i]
        /\ \A i, j \in DOMAIN answer : i # j => answer[i] # answer[j]
        /\ (answer = <<>>) <=> (options = <<>>)

C9_Witness ==
    /\ dpc = "done" /\ rule = 1
    /\ Len(options) = 2
    /\ options[1] = options[2]
    /\ Len(answer) = 1

(***************************************************************************)
(* Properties of process_item and load_image (SpecProcess)                *)
(***************************************************************************)
\* C7: two records with the same id and question that differ only in the image
\* get the same result from process_item, and process_item fails only when the
\* question is not a string, never because of the image or a missing decoder.
C7_ImageNeverInfluences ==
    /\ ppc = "both" => res1 = res2
    /\ (ppc \in {"first", "both"} /\ res1.raised) => GetQuestion(item1).t # "str"

C7_Witness ==
    /\ ppc = "both" /\ pil
    /\ item1.image = [t |-> "bytes", ok |-> FALSE]
    /\ item2.image = [t |-> "ndarray", shape |-> <<4, 2, 2>>]
    /\ ~res1.raised /\ res1.answer = <<"C">> /\ res2 = res1

(***************************************************************************)
(* Properties of main (Spec)                                               *)
(***************************************************************************)
AllMappings == \A n \in DOMAIN data.v : data.v[n].t = "dict"
Fails(item) == GetQuestion(item).t # "str"
Processed == SubSeq(data.v, 1, idx - 1)
ProcessedWithId == SelectSeq(Processed, LAMBDA it : GetRid(it) # None)
ResultsWithId == SelectSeq(results, LAMBDA r : r.rid # None)

\* C1: on a list of mappings, the results hold, in input order, exactly one
\* entry for each processed record whose id is not None, with that id, and with
\* answer "" if its processing raised; a record that raised and has no id adds
\* no entry; and no exception leaves the loop.
C1_OneEntryPerResolvableId ==
    (data.t = "list" /\ AllMappings /\ pc # "load") =>
        /\ pc # "crashed"
        /\ Len(ResultsWithId) = Len(ProcessedWithId)
        /\ \A k \in DOMAIN ResultsWithId :
              /\ ResultsWithId[k].rid = GetRid(ProcessedWithId[k])
              /\ Fails(ProcessedWithId[k]) => ResultsWithId[k].answer = <<>>
        /\ Len(results) - Len(ResultsWithId) =
              Cardinality({n \in DOMAIN Processed :
                              GetRid(Processed[n]) = None /\ ~Fails(Processed[n])})

C1_Witness ==
    /\ pc = "exit0" /\ Len(data.v) = 2
    /\ data.v[1].rid = "r2" /\ Fails(data.v[1])
    /\ data.v[2].rid = None /\ Fails(data.v[2])
    /\ results = <<[rid |-> "r2", answer |-> <<>>]>>

====
